---- MODULE Spec2Model ----
(***************************************************************************)
(* Model of the answer-evaluation controller (exports.evaluateAnswers) of  *)
(* my-paper-evaluator: request validation, submission and exam lookup,     *)
(* exam binding, the per-answer loop (question matching, grading oracle    *)
(* call, reply validation, clamping, fallback scorer), aggregation,        *)
(* persistence and the response.                                           *)
(*                                                                         *)
(* Representation.                                                         *)
(*  - Identifier strings are sequences of one-character strings, so that   *)
(*    trim(), toUpperCase() and the regular expression /^\d+/ are computed *)
(*    character by character.                                              *)
(*  - JavaScript numbers that stand for marks are fixed-point integers in  *)
(*    units of 1/Unit mark (Unit = 2: half marks), so that a maximum of    *)
(*    2.5 marks is the integer 5 and Math.floor is computed exactly.       *)
(*  - Math.random() returns n / RandDen for a numerator n of RandomDraws.  *)
(*  - A handler runs atomically between two awaits; every await (findOne,  *)
(*    findById, fetch + response.json, save) is an interleaving point.     *)
(*  - The storage acts on its own between the call of findOne or save and  *)
(*    the moment the awaited promise settles: it reads the submission for  *)
(*    findOne and writes it for save at some point in between.             *)
(*  - Every await lies inside the try of the handler: a rejected findOne,  *)
(*    findById or save ends in the outer catch, which answers 500. The     *)
(*    handler does not know whether the storage wrote before a save        *)
(*    rejected: the rejection may come before the write or after it.       *)
(***************************************************************************)
EXTENDS Integers, Sequences, FiniteSets, TLC

VARIABLES
    answers,    \* student.answers of the stored submission (immutable)
    db,         \* the persisted StudentAnswer document (result fields)
    req,        \* per request slot: the handler's local state
    sent,       \* the last response sent, with the handler that sent it
    started     \* number of requests received so far

vars == <<answers, db, req, sent, started>>

----------------------------------------------------------------------------
(* Bounds of the model *)

NProcs == 2
MaxReqs == 2
MaxIdLen == 3

Procs == 1..NProcs

----------------------------------------------------------------------------
(* Numbers *)

Unit == 2
RandDen == 100
RandomDraws == {0, 99}

\* Variant: the marks of the reply are taken unclamped
MathMinFirst(a, b) == a

MathMin(a, b) == IF a <= b THEN a ELSE b

\* Math.floor of the fixed-point value num / (den * Unit), as a fixed-point mark
MathFloorDiv(num, den) == (num \div (den * Unit)) * Unit

----------------------------------------------------------------------------
(* Strings: trim, toUpperCase, /^\d+/ *)

Alphabet == {" ", "Q", "a", "A", "1", "2", "-"}
Digits == {"0", "1", "2", "3", "4", "5", "6", "7", "8", "9"}

RECURSIVE StringsUpTo(_)
StringsUpTo(n) ==
    IF n = 0 THEN {<<>>}
    ELSE LET S == StringsUpTo(n - 1)
         IN  S \cup {Append(s, c) : s \in {t \in S : Len(t) = n - 1}, c \in Alphabet}

IdStrings == StringsUpTo(MaxIdLen)

toUpperCaseChar(c) ==
    CASE c = "a" -> "A"
      [] c = "q" -> "Q"
      [] c = "b" -> "B"
      [] OTHER -> c

toUpperCase(s) == [k \in 1..Len(s) |-> toUpperCaseChar(s[k])]

RECURSIVE trimStart(_)
trimStart(s) ==
    IF Len(s) > 0 /\ Head(s) = " " THEN trimStart(Tail(s)) ELSE s

RECURSIVE trimEnd(_)
trimEnd(s) ==
    IF Len(s) > 0 /\ s[Len(s)] = " " THEN trimEnd(SubSeq(s, 1, Len(s) - 1)) ELSE s

trim(s) == trimEnd(trimStart(s))

\* the longest prefix of s made of decimal digits: the match of /^\d+/ if non-empty
RECURSIVE LeadingDigits(_)
LeadingDigits(s) ==
    IF Len(s) > 0 /\ Head(s) \in Digits
    THEN <<Head(s)>> \o LeadingDigits(Tail(s))
    ELSE <<>>

\* Variant: the pattern /\d+/ without its anchor, the first digit run anywhere
RECURSIVE normalizeQNumUnanchored(_)
normalizeQNumUnanchored(qNum) ==
    IF Len(qNum) = 0 THEN qNum
    ELSE IF Head(qNum) \in Digits THEN LeadingDigits(qNum)
    ELSE LET rest == normalizeQNumUnanchored(Tail(qNum))
         IN  IF Len(rest) > 0 /\ Head(rest) \in Digits THEN rest ELSE qNum

normalizeQNum(qNum) ==
    LET match == LeadingDigits(qNum)
    IN  IF Len(match) > 0 THEN match ELSE qNum

\* (x.questionNumber || '').toString().trim().toUpperCase()
RawQNum(x) ==
    toUpperCase(trim(IF "questionNumber" \in DOMAIN x THEN x.questionNumber ELSE <<>>))

----------------------------------------------------------------------------
(* Stored data: exams (read-only during evaluation) and the submission *)

\* The stored exams. A question's maximum is read as `maxMarks || marks`, so a
\* question may carry its maximum in either field. Marks are in units of 1/Unit:
\* question "2" of exam e1 has a maximum of 2.5 marks, question "1a" of exam e2
\* carries its maximum of 4 marks in the field `marks`.
Exams ==
    [id \in {"e1", "e2"} |->
        IF id = "e1"
        THEN [_id |-> "e1",
              questions |-> << [questionNumber |-> <<"1">>, maxMarks |-> 10 * Unit],
                               [questionNumber |-> <<"2">>, maxMarks |-> 5] >>,
              passMarks |-> 5 * Unit]
        ELSE [_id |-> "e2",
              questions |-> << [questionNumber |-> <<"1", "a">>, maxMarks |-> 0,
                                marks |-> 4 * Unit],
                               [questionNumber |-> <<"1", "b">>, maxMarks |-> 6 * Unit] >>,
              passMarks |-> 4 * Unit]]

\* mongoose.Types.ObjectId.isValid: here, the identifiers shaped like an exam key
ObjectIdIsValid(examId) == examId \in {"e1", "e2", "e9"}

RollNumbers == {"", "r0", "r1"}
ExamIds == {"", "bad", "e1", "e2", "e9"}
StoredRollNumber == "r1"

\* student.answers of the submissions the model starts from
AnswersOne == << [questionNumber |-> <<"1">>, answerText |-> "x"] >>

AnswersGaps ==
    << [questionNumber |-> <<"3">>, answerText |-> "x"],
       [questionNumber |-> <<" ", "1", " ">>, answerText |-> "x"],
       [answerText |-> "x"] >>

AnswersFormats ==
    << [questionNumber |-> <<"Q", "1", "a">>, answerText |-> "x"],
       [questionNumber |-> <<"1", "-", "A">>, answerText |-> "x"],
       [questionNumber |-> <<"2", "a">>, answerText |-> "x"] >>

AnswerLists == {AnswersOne, AnswersGaps, AnswersFormats}

\* The submissions of the runs in which requests overlap
RaceAnswerLists == {AnswersOne, AnswersGaps}

\* One-answer submissions over every identifier of at most MaxIdLen characters
ProbeAnswerLists ==
    { << [questionNumber |-> s, answerText |-> "x"] >> : s \in IdStrings }

----------------------------------------------------------------------------
(* The grading oracle's reply and JSON.parse *)

JNull == [t |-> "null"]
JNum(n) == [t |-> "number", n |-> n]
JStr(s) == [t |-> "string", s |-> s]
JObj(f) == [t |-> "object", f |-> f]

\* The reply texts the oracle is taken to produce, and JSON.parse of each:
\* a value, or [t |-> "SyntaxError"] where JSON.parse throws.
ReplyTexts ==
    { "  ",
      "marks: 7",
      "null",
      "7",
      "{\"marks\": \"7\", \"feedback\": \"Good\"}",
      "{\"marks\": 7, \"feedback\": \"\"}",
      "{\"feedback\": \"Good\"}",
      "{\"marks\": 7, \"feedback\": \"Good\"}",
      "{\"marks\": 15, \"feedback\": \"Excellent\"}",
      "{\"marks\": -3, \"feedback\": \"Poor\"}" }

JSONParse(text) ==
    CASE text = "null" -> JNull
      [] text = "7" -> JNum(7 * Unit)
      [] text = "{\"marks\": \"7\", \"feedback\": \"Good\"}" ->
            JObj([marks |-> JStr("7"), feedback |-> JStr("Good")])
      [] text = "{\"marks\": 7, \"feedback\": \"\"}" ->
            JObj([marks |-> JNum(7 * Unit), feedback |-> JStr("")])
      [] text = "{\"feedback\": \"Good\"}" ->
            JObj([feedback |-> JStr("Good")])
      [] text = "{\"marks\": 7, \"feedback\": \"Good\"}" ->
            JObj([marks |-> JNum(7 * Unit), feedback |-> JStr("Good")])
      [] text = "{\"marks\": 15, \"feedback\": \"Excellent\"}" ->
            JObj([marks |-> JNum(15 * Unit), feedback |-> JStr("Excellent")])
      [] text = "{\"marks\": -3, \"feedback\": \"Poor\"}" ->
            JObj([marks |-> JNum((-3) * Unit), feedback |-> JStr("Poor")])
      [] OTHER -> [t |-> "SyntaxError"]

\* String.prototype.trim on a reply text
trimText(text) == IF text = "  " THEN "" ELSE text

\* What the awaited fetch(...) and response.json() deliver: a rejection, or the
\* decoded body `data`
OracleOutcomes ==
    { [rejected |-> TRUE] }
    \cup { [rejected |-> FALSE, data |-> [error |-> "unavailable"]] }
    \cup { [rejected |-> FALSE, data |-> [choices |-> <<>>]] }
    \cup { [rejected |-> FALSE, data |-> [choices |-> << [text |-> t] >>]] : t \in ReplyTexts }

\* data?.choices?.[0]?.text?.trim(); "" stands for undefined as well (both falsy)
RawText(data) ==
    IF "choices" \in DOMAIN data /\ Len(data.choices) >= 1
       /\ "text" \in DOMAIN data.choices[1]
    THEN trimText(data.choices[1].text)
    ELSE ""

\* JavaScript truthiness of a parsed JSON value
Truthy(v) ==
    CASE v.t = "null" -> FALSE
      [] v.t = "number" -> v.n # 0
      [] v.t = "string" -> v.s # ""
      [] OTHER -> TRUE

\* parsed && typeof parsed.marks === 'number' && parsed.feedback
\* (a property read on a number or a string yields undefined, so that only an
\* object can pass)
ParsedIsValid(parsed) ==
    /\ Truthy(parsed)
    /\ parsed.t = "object"
    /\ "marks" \in DOMAIN parsed.f
    /\ parsed.f.marks.t = "number"
    /\ "feedback" \in DOMAIN parsed.f
    /\ Truthy(parsed.f.feedback)

----------------------------------------------------------------------------
(* Fallback scorer *)

fallbackFeedbacks ==
    << "Answer is somewhat related to the topic.",
       "Fair attempt, but lacks depth.",
       "Contains partial relevant information.",
       "Needs improvement, but shows effort.",
       "Answer lacks clarity but is understandable." >>

\* Math.floor(Math.random() * fallbackFeedbacks.length), Math.random() = r / RandDen
getRandomFeedback(r) ==
    fallbackFeedbacks[((r * Len(fallbackFeedbacks)) \div RandDen) + 1]

\* Math.floor(Math.random() * (Number(maxMarks) + 1)), Math.random() = r / RandDen
getRandomMarks(maxMarks, r) == MathFloorDiv(r * (maxMarks + Unit), RandDen)

----------------------------------------------------------------------------
(* One iteration of the per-answer loop *)

NotFoundFeedback == "Question not found in exam config."

\* questionObj.maxMarks || questionObj.marks
MaxOf(questionObj) ==
    IF "maxMarks" \in DOMAIN questionObj /\ questionObj.maxMarks # 0
    THEN questionObj.maxMarks
    ELSE questionObj.marks

\* Variant: an unmatched answer is graded against the exam's first question
FindQuestionOrFirst(questions, normQNum) ==
    LET hits == {k \in 1..Len(questions) :
                    normalizeQNum(RawQNum(questions[k])) = normQNum}
    IN  IF hits = {} THEN 1 ELSE CHOOSE k \in hits : \A j \in hits : k <= j

\* exam.questions.find(q => normalizeQNum(examQNum) === normQNum): the index of
\* the first question that matches, 0 for undefined
FindQuestion(questions, normQNum) ==
    LET hits == {k \in 1..Len(questions) :
                    normalizeQNum(RawQNum(questions[k])) = normQNum}
    IN  IF hits = {} THEN 0 ELSE CHOOSE k \in hits : \A j \in hits : k <= j

NotFoundEvaluation(rawQNum) ==
    [questionNumber |-> rawQNum, marks |-> 0, feedback |-> NotFoundFeedback]

\* The body of the try block after the awaits: the marks and feedback taken from
\* the reply, or threw = TRUE where one of its throw statements (or a rejected
\* await) passes control to the catch block
TryGrade(questionObj, outcome) ==
    IF outcome.rejected THEN [threw |-> TRUE]
    ELSE LET rawText == RawText(outcome.data)
         IN  IF rawText = "" THEN [threw |-> TRUE]
             ELSE LET parsed == JSONParse(rawText)
                  IN  IF parsed.t = "SyntaxError" THEN [threw |-> TRUE]
                      ELSE IF ParsedIsValid(parsed)
                           THEN [threw |-> FALSE,
                                 marks |-> MathMin(parsed.f.marks.n, MaxOf(questionObj)),
                                 feedback |-> parsed.f.feedback.s]
                           ELSE [threw |-> TRUE]

\* The catch block: the fallback scorer
CatchGrade(questionObj, r1, r2) ==
    [marks |-> getRandomMarks(MaxOf(questionObj), r1),
     feedback |-> getRandomFeedback(r2)]

\* The evaluation pushed for a matched question once the oracle call has settled
GradedEvaluation(rawQNum, questionObj, outcome, r1, r2) ==
    LET t == TryGrade(questionObj, outcome)
        c == CatchGrade(questionObj, r1, r2)
    IN  IF t.threw
        THEN [questionNumber |-> rawQNum, marks |-> c.marks,
              feedback |-> c.feedback, usedFallback |-> TRUE]
        ELSE [questionNumber |-> rawQNum, marks |-> t.marks,
              feedback |-> t.feedback, usedFallback |-> FALSE]

\* Variant: an unmatched answer is skipped without an evaluation
RECURSIVE RunLoopDropsUnmatched(_, _, _)
RunLoopDropsUnmatched(exam, i, evaluations) ==
    IF i > Len(answers)
    THEN [i |-> i, qi |-> 0, evaluations |-> evaluations]
    ELSE LET qi == FindQuestion(exam.questions, normalizeQNum(RawQNum(answers[i])))
         IN  IF qi = 0
             THEN RunLoopDropsUnmatched(exam, i + 1, evaluations)
             ELSE [i |-> i, qi |-> qi, evaluations |-> evaluations]

\* The for loop from answer i on, up to the next await: unmatched answers are
\* pushed and skipped (continue); it stops at the first matched answer (qi is its
\* question, the fetch is issued) or past the last answer (qi = 0)
RECURSIVE RunLoop(_, _, _)
RunLoop(exam, i, evaluations) ==
    IF i > Len(answers)
    THEN [i |-> i, qi |-> 0, evaluations |-> evaluations]
    ELSE LET rawQNum == RawQNum(answers[i])
             normQNum == normalizeQNum(rawQNum)
             qi == FindQuestion(exam.questions, normQNum)
         IN  IF qi = 0
             THEN RunLoop(exam, i + 1, Append(evaluations, NotFoundEvaluation(rawQNum)))
             ELSE [i |-> i, qi |-> qi, evaluations |-> evaluations]

\* Variant: the reduction leaves the last evaluation out
RECURSIVE ReduceMarksButLast(_)
ReduceMarksButLast(evaluations) ==
    IF Len(evaluations) <= 1 THEN 0
    ELSE ReduceMarksButLast(SubSeq(evaluations, 1, Len(evaluations) - 1))
         + evaluations[Len(evaluations) - 1].marks

\* evaluations.reduce((sum, e) => sum + e.marks, 0)
RECURSIVE ReduceMarks(_)
ReduceMarks(evaluations) ==
    IF evaluations = <<>> THEN 0
    ELSE ReduceMarks(SubSeq(evaluations, 1, Len(evaluations) - 1))
         + evaluations[Len(evaluations)].marks

\* Variant: the threshold comparison is strict
VerdictStrict(totalMarks, passMarks) == IF totalMarks > passMarks THEN "Pass" ELSE "Fail"

\* student.totalMarks >= exam.passMarks ? 'Pass' : 'Fail'
Verdict(totalMarks, passMarks) == IF totalMarks >= passMarks THEN "Pass" ELSE "Fail"

\* Lines 130-136: the result fields assigned to the in-memory student document
Aggregate(exam, evaluations) ==
    LET totalMarks == ReduceMarks(evaluations)
    IN  [examId |-> exam._id,
         evaluated |-> evaluations,
         totalMarks |-> totalMarks,
         result |-> Verdict(totalMarks, exam.passMarks)]

----------------------------------------------------------------------------
(* Storage: the StudentAnswer and Exam collections *)

\* StudentAnswer.findOne({ rollNumber }): the stored document as the storage reads
\* it, or none (found = FALSE)
FindOne(rollNumber) ==
    IF rollNumber = StoredRollNumber
    THEN [found |-> TRUE, examId |-> db.examId]
    ELSE [found |-> FALSE]

\* Exam.findById(id)
FindById(id) == IF id \in DOMAIN Exams THEN [found |-> TRUE, exam |-> Exams[id]]
                ELSE [found |-> FALSE]

\* student.save(): one atomic write of the document's result fields
SaveDocument(student) ==
    [examId |-> student.examId,
     evaluated |-> student.evaluated,
     totalMarks |-> student.totalMarks,
     result |-> student.result]

----------------------------------------------------------------------------
(* The handler exports.evaluateAnswers, one action per stretch between awaits *)

NoResponse == [status |-> 0]

\* The locals of a handler: req.body, student (what findOne is to deliver, then
\* the document with its examId, then with the assigned result fields), exam (by
\* its _id), the loop's position i and questionObj (its index qi in
\* exam.questions), evaluations; calls logs the answers a fetch was issued for,
\* loaded logs the examId of the document as findOne delivered it.
\* pc is the await the handler is suspended at: "findOne" (query issued),
\* "findOneRead" (the storage has read the document), "findById", "fetch",
\* "save" (save called), "saved" (the storage has written the document).
IdleReq ==
    [pc |-> "idle",
     body |-> [rollNumber |-> "", examId |-> ""],
     student |-> [examId |-> ""],
     exam |-> "",
     i |-> 0,
     qi |-> 0,
     evaluations |-> <<>>,
     calls |-> {},
     loaded |-> ""]

\* res.status(...).json(...): the response, kept with the handler that sent it
Respond(p, r, res) ==
    /\ sent' = [by |-> p, exam |-> r.exam, calls |-> r.calls, res |-> res]
    /\ req' = [req EXCEPT ![p] = IdleReq]

\* Variant: the supplied exam is adopted on every request
BindExamAlways(student, examId) == [student EXCEPT !.examId = examId]

\* if (!student.examId) student.examId = examId
BindExam(student, examId) ==
    IF student.examId = "" THEN [student EXCEPT !.examId = examId] ELSE student

\* The loop has reached its next await: a fetch for answer l.i, or, past the last
\* answer, the aggregation and the save
AfterLoop(r, exam, l) ==
    IF l.qi # 0
    THEN [r EXCEPT !.pc = "fetch", !.exam = exam._id, !.i = l.i, !.qi = l.qi,
                   !.evaluations = l.evaluations, !.calls = @ \cup {l.i}]
    ELSE [r EXCEPT !.pc = "save", !.exam = exam._id, !.i = l.i, !.qi = 0,
                   !.evaluations = l.evaluations,
                   !.student = Aggregate(exam, l.evaluations)]

\* Lines 9-19: the request arrives and is validated
Start(p, rollNumber, examId) ==
    /\ req[p].pc = "idle"
    /\ started < MaxReqs
    /\ started' = started + 1
    /\ LET r == [IdleReq EXCEPT !.body = [rollNumber |-> rollNumber, examId |-> examId]]
       IN  IF rollNumber = "" \/ examId = ""
           THEN Respond(p, r, [status |-> 400,
                               error |-> "rollNumber and examId are required"])
           ELSE IF ~ObjectIdIsValid(examId)
           THEN Respond(p, r, [status |-> 400, error |-> "Invalid examId"])
           ELSE /\ req' = [req EXCEPT ![p] = [r EXCEPT !.pc = "findOne"]]
                /\ UNCHANGED sent
    /\ UNCHANGED <<answers, db>>

\* Line 19, inside StudentAnswer.findOne: the storage reads the submission; the
\* promise has not settled yet
ReadStudent(p) ==
    /\ req[p].pc = "findOne"
    /\ req' = [req EXCEPT ![p] =
            [@ EXCEPT !.pc = "findOneRead",
                      !.student = FindOne(req[p].body.rollNumber)]]
    /\ UNCHANGED <<answers, db, sent, started>>

\* Lines 19-26: StudentAnswer.findOne settles with the document the storage
\* read; the exam is bound in memory
FindStudent(p) ==
    /\ req[p].pc = "findOneRead"
    /\ LET f == req[p].student
       IN  IF ~f.found
           THEN Respond(p, req[p], [status |-> 404, message |-> "Student not found"])
           ELSE /\ req' = [req EXCEPT ![p] =
                        [@ EXCEPT !.pc = "findById",
                                  !.loaded = f.examId,
                                  !.student = BindExam([examId |-> f.examId],
                                                       req[p].body.examId)]]
                /\ UNCHANGED sent
    /\ UNCHANGED <<answers, db, started>>

\* Lines 19, 147-150: StudentAnswer.findOne rejects, before or after the storage
\* read the document; the outer catch answers 500
FindStudentFail(p) ==
    /\ req[p].pc \in {"findOne", "findOneRead"}
    /\ Respond(p, [req[p] EXCEPT !.student = IdleReq.student],
               [status |-> 500, error |-> "Evaluation failed"])
    /\ UNCHANGED <<answers, db, started>>

\* Lines 26-77: Exam.findById settles; the loop runs up to its first fetch
\* (req.body is not read after line 23: its value is dropped here)
FindExam(p) ==
    /\ req[p].pc = "findById"
    /\ LET f == FindById(req[p].student.examId)
       IN  IF ~f.found
           THEN Respond(p, req[p], [status |-> 404, message |-> "Exam not found"])
           ELSE /\ req' = [req EXCEPT ![p] =
                        AfterLoop([@ EXCEPT !.body = IdleReq.body], f.exam,
                                  RunLoop(f.exam, 1, <<>>))]
                /\ UNCHANGED sent
    /\ UNCHANGED <<answers, db, started>>

\* Lines 26, 147-150: Exam.findById rejects; the outer catch answers 500
FindExamFail(p) ==
    /\ req[p].pc = "findById"
    /\ Respond(p, req[p], [status |-> 500, error |-> "Evaluation failed"])
    /\ UNCHANGED <<answers, db, started>>

\* Lines 77-128: the oracle call settles; the answer's evaluation is pushed and
\* the loop goes on up to its next fetch
OracleReply(p, outcome, r1, r2) ==
    /\ req[p].pc = "fetch"
    /\ LET r == req[p]
           exam == Exams[r.exam]
           e == GradedEvaluation(RawQNum(answers[r.i]), exam.questions[r.qi],
                                 outcome, r1, r2)
       IN  req' = [req EXCEPT ![p] =
                AfterLoop(r, exam, RunLoop(exam, r.i + 1, Append(r.evaluations, e)))]
    /\ UNCHANGED <<answers, db, sent, started>>

\* Line 138, inside student.save(): the storage writes the document; the promise
\* has not settled yet and no response has been sent
WriteDocument(p) ==
    /\ req[p].pc = "save"
    /\ db' = SaveDocument(req[p].student)
    /\ req' = [req EXCEPT ![p] = [@ EXCEPT !.pc = "saved"]]
    /\ UNCHANGED <<answers, sent, started>>

\* Lines 138-145: student.save() settles after the write; the response is sent
Save(p) ==
    /\ req[p].pc = "saved"
    /\ Respond(p, req[p], [status |-> 200,
                           message |-> "Evaluation complete",
                           evaluations |-> req[p].evaluations,
                           totalMarks |-> req[p].student.totalMarks,
                           result |-> req[p].student.result])
    /\ UNCHANGED <<answers, db, started>>

\* Lines 138, 147-150: the awaited student.save() rejects; the outer catch
\* answers 500. The handler answers alike whether the storage has not written
\* the document (pc = "save") or has (pc = "saved")
SaveFail(p) ==
    /\ req[p].pc \in {"save", "saved"}
    /\ Respond(p, req[p], [status |-> 500, error |-> "Evaluation failed"])
    /\ UNCHANGED <<answers, db, started>>

\* The continuations after an await on the storage
StorageSettle(p) ==
    \/ ReadStudent(p)
    \/ FindStudent(p)
    \/ FindStudentFail(p)
    \/ FindExam(p)
    \/ FindExamFail(p)
    \/ WriteDocument(p)
    \/ Save(p)
    \/ SaveFail(p)

Settle(p) ==
    \/ StorageSettle(p)
    \/ \E outcome \in OracleOutcomes, r1 \in RandomDraws, r2 \in RandomDraws :
            OracleReply(p, outcome, r1, r2)

Receive(p) ==
    \E rollNumber \in RollNumbers, examId \in ExamIds : Start(p, rollNumber, examId)

\* No request is in flight
Quiet == \A q \in Procs : req[q].pc = "idle"

InitDb == [examId |-> ""]

InitWith(lists) ==
    /\ answers \in lists
    /\ db = InitDb
    /\ req = [p \in Procs |-> IdleReq]
    /\ sent = [by |-> 0, exam |-> "", calls |-> {}, res |-> NoResponse]
    /\ started = 0

\* The oracle outcomes of the runs in which requests overlap: a rejected call, a
\* reply within the range, a reply below it
RaceOutcomes ==
    { outcome \in OracleOutcomes :
        \/ outcome.rejected
        \/ RawText(outcome.data) \in { "{\"marks\": 7, \"feedback\": \"Good\"}",
                                       "{\"marks\": -3, \"feedback\": \"Poor\"}" } }

\* Requests may overlap
Next ==
    \E p \in Procs :
        \/ Receive(p)
        \/ StorageSettle(p)
        \/ \E outcome \in RaceOutcomes, r1 \in RandomDraws :
                OracleReply(p, outcome, r1, 0)

\* Requests arrive one after the other: each is received once the one before it
\* has been answered, so that a single handler runs at a time
SeqNext == (Quiet /\ Receive(1)) \/ Settle(1)

Init == InitWith(RaceAnswerLists)

Spec == Init /\ [][Next]_vars

SeqInit == InitWith(AnswerLists)

SeqSpec == SeqInit /\ [][SeqNext]_vars

\* Requests for exam e1 that arrive one after the other. The storage operations
\* settle (weak fairness); the oracle is under no obligation to answer, since
\* the fetch carries no timeout.
LiveInit == InitWith({AnswersOne, AnswersGaps})

LiveNext == (Quiet /\ Start(1, StoredRollNumber, "e1")) \/ Settle(1)

FairSpec ==
    /\ LiveInit
    /\ [][LiveNext]_vars
    /\ \A p \in Procs : /\ WF_vars(ReadStudent(p))
                        /\ WF_vars(FindStudent(p) \/ FindStudentFail(p))
                        /\ WF_vars(FindExam(p) \/ FindExamFail(p))
                        /\ WF_vars(WriteDocument(p) \/ SaveFail(p))
                        /\ WF_vars(Save(p) \/ SaveFail(p))

\* One request for exam e1 on a one-answer submission, up to the matcher's result
NormInit == InitWith(ProbeAnswerLists)

NormNext ==
    \/ (Quiet /\ Start(1, StoredRollNumber, "e1"))
    \/ ReadStudent(1)
    \/ FindStudent(1)
    \/ FindExam(1)

NormSpec == NormInit /\ [][NormNext]_vars

----------------------------------------------------------------------------
(* Properties *)

\* The question an answer is matched to in an exam, by the matching rule of the
\* specification: the first question whose normalized identifier equals the
\* answer's; 0 when there is none
MatchedIndex(examId, answer) ==
    LET qs == Exams[examId].questions
        n(x) == normalizeQNum(toUpperCase(trim(
                    IF "questionNumber" \in DOMAIN x THEN x.questionNumber ELSE <<>>)))
        hits == {k \in 1..Len(qs) : n(qs[k]) = n(answer)}
    IN  IF hits = {} THEN 0 ELSE CHOOSE k \in hits : \A j \in hits : k <= j

MaxMarksOfMatched(examId, answer) ==
    LET q == Exams[examId].questions[MatchedIndex(examId, answer)]
    IN  IF q.maxMarks # 0 THEN q.maxMarks ELSE q.marks

\* The sum of the marks of a list of evaluations
RECURSIVE SumMarks(_)
SumMarks(es) == IF es = <<>> THEN 0 ELSE Head(es).marks + SumMarks(Tail(es))

\* Every list of evaluations of the state, with the exam it was graded against:
\* the lists being built, the list of a successful response, the persisted list
EvaluationLists ==
    { [exam |-> req[p].exam, list |-> req[p].evaluations] :
        p \in {q \in Procs : req[q].exam # ""} }
    \cup (IF sent.res.status = 200
          THEN {[exam |-> sent.exam, list |-> sent.res.evaluations]} ELSE {})
    \cup (IF "evaluated" \in DOMAIN db
          THEN {[exam |-> db.examId, list |-> db.evaluated]} ELSE {})

\* The reply of the oracle is a grading failure: transport error, empty or absent
\* text, unparseable text, or a parsed value without numeric marks or feedback
GradingFailure(outcome) ==
    \/ outcome.rejected
    \/ RawText(outcome.data) = ""
    \/ JSONParse(RawText(outcome.data)).t = "SyntaxError"
    \/ ~ParsedIsValid(JSONParse(RawText(outcome.data)))

ValidOutcomes == {outcome \in OracleOutcomes : ~GradingFailure(outcome)}

FailureOutcomes == {outcome \in OracleOutcomes : GradingFailure(outcome)}

\* Handler p takes the step in which its oracle call settles with this outcome
Settles(p, outcome) ==
    \E r1 \in RandomDraws, r2 \in RandomDraws : OracleReply(p, outcome, r1, r2)

\* C1: every evaluation has 0 <= marks <= maxMarks of the matched question, and
\* marks = 0 when no question matched, whatever the oracle returned and whichever
\* path produced it.
C1_MarksWithinBounds ==
    \A l \in EvaluationLists : \A k \in 1..Len(l.list) :
        IF MatchedIndex(l.exam, answers[k]) = 0
        THEN l.list[k].marks = 0
        ELSE /\ 0 <= l.list[k].marks
             /\ l.list[k].marks <= MaxMarksOfMatched(l.exam, answers[k])

\* C2: when the oracle's reply parses to an object with numeric marks and a
\* non-empty feedback, the evaluation pushed for the answer has
\* marks = min(parsed.marks, maxMarks), the parsed feedback verbatim and
\* usedFallback = false.
C2_ValidReplyIsUsed ==
    [][\A p \in Procs : \A outcome \in ValidOutcomes :
          (req[p].pc = "fetch" /\ req'[p] # req[p] /\ Settles(p, outcome)) =>
              LET parsed == JSONParse(RawText(outcome.data))
                  max == MaxMarksOfMatched(req[p].exam, answers[req[p].i])
                  e == req'[p].evaluations[req[p].i]
              IN  /\ e.marks = (IF parsed.f.marks.n < max THEN parsed.f.marks.n ELSE max)
                  /\ e.feedback = parsed.f.feedback.s
                  /\ e.usedFallback = FALSE]_vars

\* C2 witness: marks 15 on the maxMarks-10 question were clamped to 10, and marks 7
\* were kept, both with the oracle's feedback.
C2_Witness ==
    /\ sent.res.status = 200
    /\ answers = AnswersOne
    /\ sent.res.evaluations[1] =
           [questionNumber |-> <<"1">>, marks |-> 10 * Unit,
            feedback |-> "Excellent", usedFallback |-> FALSE]
    /\ \E p \in Procs : /\ req[p].pc = "save"
                        /\ req[p].evaluations[1].marks = 7 * Unit
                        /\ req[p].evaluations[1].feedback = "Good"
                        /\ req[p].evaluations[1].usedFallback = FALSE

\* C3: for a matched question every grading failure yields an evaluation with
\* usedFallback = true and integer marks within [0, maxMarks], and the loop goes
\* on with the remaining answers.
C3_FailureUsesFallback ==
    [][\A p \in Procs : \A outcome \in FailureOutcomes :
          (req[p].pc = "fetch" /\ req'[p] # req[p] /\ Settles(p, outcome)) =>
              LET max == MaxMarksOfMatched(req[p].exam, answers[req[p].i])
                  e == req'[p].evaluations[req[p].i]
              IN  /\ e.usedFallback = TRUE
                  /\ e.marks % Unit = 0
                  /\ 0 <= e.marks
                  /\ e.marks <= max
                  /\ req'[p].pc \in {"fetch", "save"}
                  /\ req'[p].i > req[p].i]_vars

\* The question an answer is matched to exists: the answer is not unmatched
Unmatched(examId, answer) == MatchedIndex(examId, answer) = 0

\* C4: an answer whose normalized identifier equals no exam question's gets
\* marks 0 and the feedback "Question not found in exam config.", no oracle call
\* is made for it, and the loop goes on: a successful response has an evaluation
\* for every answer.
C4_UnmatchedIsZero ==
    /\ \A p \in Procs : \A k \in 1..Len(answers) :
          (req[p].exam # "" /\ Unmatched(req[p].exam, answers[k])) =>
              /\ k \notin req[p].calls
              /\ k <= Len(req[p].evaluations) =>
                    req[p].evaluations[k] =
                        [questionNumber |-> toUpperCase(trim(
                            IF "questionNumber" \in DOMAIN answers[k]
                            THEN answers[k].questionNumber ELSE <<>>)),
                         marks |-> 0,
                         feedback |-> "Question not found in exam config."]
              /\ req[p].pc = "fetch" => req[p].i # k
    /\ sent.res.status = 200 =>
          /\ Len(sent.res.evaluations) = Len(answers)
          /\ \A k \in 1..Len(answers) :
                Unmatched(sent.exam, answers[k]) =>
                    /\ k \notin sent.calls
                    /\ sent.res.evaluations[k].marks = 0
                    /\ sent.res.evaluations[k].feedback =
                           "Question not found in exam config."

\* C4 witness: a successful response for a submission whose first and last
\* answers match no question and whose second answer was graded.
C4_Witness ==
    /\ sent.res.status = 200
    /\ answers = AnswersGaps
    /\ sent.calls = {2}
    /\ sent.res.evaluations[1].feedback = "Question not found in exam config."
    /\ sent.res.evaluations[3].feedback = "Question not found in exam config."
    /\ sent.res.evaluations[2].marks > 0

\* C5: the persisted totalMarks equals the sum of the marks of the persisted
\* evaluated list, and the totalMarks of a successful response equals the sum of
\* the marks of its evaluations, under any interleaving of requests.
C5_TotalIsSum ==
    /\ "totalMarks" \in DOMAIN db => db.totalMarks = SumMarks(db.evaluated)
    /\ sent.res.status = 200 => sent.res.totalMarks = SumMarks(sent.res.evaluations)

\* C5 witness: one request has persisted a non-zero total over three evaluations
\* while an overlapping request is about to save a different total.
C5_Witness ==
    /\ "totalMarks" \in DOMAIN db
    /\ Len(db.evaluated) = 3
    /\ db.totalMarks > 0
    /\ sent.res.status = 200
    /\ \E p \in Procs : /\ req[p].pc = "save"
                        /\ req[p].student.totalMarks # db.totalMarks

\* C6: a completed evaluation has result 'Pass' if and only if
\* totalMarks >= passMarks of the exam graded against, otherwise 'Fail'.
C6_VerdictInclusive ==
    /\ sent.res.status = 200 =>
          /\ sent.res.result \in {"Pass", "Fail"}
          /\ sent.res.result = "Pass" <=>
                sent.res.totalMarks >= Exams[sent.exam].passMarks
    /\ "result" \in DOMAIN db =>
          /\ db.result \in {"Pass", "Fail"}
          /\ db.result = "Pass" <=> db.totalMarks >= Exams[db.examId].passMarks

\* C6 witness: totalMarks equal to passMarks gives 'Pass'.
C6_Witness ==
    /\ sent.res.status = 200
    /\ sent.res.totalMarks = Exams[sent.exam].passMarks
    /\ sent.res.result = "Pass"

\* C7: a successful response has exactly one evaluation per submitted answer, in
\* the stored order: the i-th questionNumber is the trimmed, uppercased identifier
\* of the i-th answer.
C7_OnePerAnswerInOrder ==
    sent.res.status = 200 =>
        /\ Len(sent.res.evaluations) = Len(answers)
        /\ \A k \in 1..Len(answers) :
              sent.res.evaluations[k].questionNumber =
                  toUpperCase(trim(IF "questionNumber" \in DOMAIN answers[k]
                                   THEN answers[k].questionNumber ELSE <<>>))

\* C7 witness: a successful response over an unmatched answer, an answer graded
\* by the oracle and an answer scored by the fallback.
C7_Witness ==
    /\ sent.res.status = 200
    /\ answers = AnswersFormats
    /\ sent.calls = {2, 3}
    /\ "usedFallback" \notin DOMAIN sent.res.evaluations[1]
    /\ sent.res.evaluations[2].usedFallback = FALSE
    /\ sent.res.evaluations[3].usedFallback = TRUE

\* The normalization of an identifier: trim, uppercase, digit prefix
Normalized(id) == normalizeQNum(toUpperCase(trim(id)))

\* What the matcher did with the answer of a one-answer submission carrying an
\* identifier that normalizes to "1": it is matched to the question whose
\* identifier normalizes to "1"
MatchedToOne(p) ==
    /\ Normalized(answers[1].questionNumber) = <<"1">>
    /\ req[p].pc = "fetch"
    /\ Normalized(Exams[req[p].exam].questions[req[p].qi].questionNumber) = <<"1">>

\* C8 as stated: normalization is idempotent, and "Q1a", "1-A" and " 1 " each
\* normalize to "1", so that an answer carrying any of them is matched to the
\* question whose identifier normalizes to "1".
C8_AllThreeMatchOne ==
    \A p \in Procs :
        req[p].pc \in {"fetch", "save"} =>
            LET id == answers[1].questionNumber
            IN  /\ Normalized(Normalized(id)) = Normalized(id)
                /\ id \in {<<"Q", "1", "a">>, <<"1", "-", "A">>, <<" ", "1", " ">>} =>
                       MatchedToOne(p)

\* C8 amended: normalization is idempotent; "1-A" and " 1 " each normalize to "1"
\* and an answer carrying either is matched to the question whose identifier
\* normalizes to "1"; "Q1a", whose digits are not leading, normalizes to "Q1A" and
\* is matched to no question of an exam whose identifiers normalize to "1" and "2".
C8_LeadingDigitsMatchOne ==
    \A p \in Procs :
        req[p].pc \in {"fetch", "save"} =>
            LET id == answers[1].questionNumber
            IN  /\ Normalized(Normalized(id)) = Normalized(id)
                /\ id \in {<<"1", "-", "A">>, <<" ", "1", " ">>} => MatchedToOne(p)
                /\ id = <<"Q", "1", "a">> =>
                       /\ Normalized(id) = <<"Q", "1", "A">>
                       /\ req[p].pc = "save"
                       /\ req[p].evaluations[1].feedback =
                              "Question not found in exam config."

\* C8 witness: the answer "1-A" has been matched to question "1", and its
\* identifier is changed by normalization.
C8_Witness ==
    \E p \in Procs :
        /\ answers[1].questionNumber = <<"1", "-", "A">>
        /\ req[p].pc = "fetch"
        /\ req[p].qi = 1
        /\ Normalized(answers[1].questionNumber) # answers[1].questionNumber

\* C9: every request that passes input validation eventually gets a response,
\* even when the oracle never replies to a grading call.
C9_EventuallyResponds ==
    \A p \in Procs : (req[p].pc = "findOne") ~> (req[p].pc = "idle")

\* The persisted document changes only in the write of a save, to the exam
\* graded against
WrittenBySave ==
    db' # db => \E p \in Procs : /\ req[p].pc = "save"
                                  /\ req'[p].pc = "saved"
                                  /\ db'.examId = req[p].exam

\* A request whose save has written ends in a successful response; a request
\* that ends in an error response has persisted nothing
ErrorPersistsNothing ==
    /\ \A p \in Procs :
          (req[p].pc = "saved" /\ req'[p] # req[p]) =>
              /\ sent'.by = p
              /\ sent'.res.status = 200
    /\ sent' # sent =>
          /\ db' = db
          /\ sent'.res.status # 200 => req[sent'.by].pc # "saved"

\* No response changes the persisted document; a successful response is sent
\* only by a request whose save has written; a request that ends in an error
\* response has persisted nothing, unless it is the response 500 of a save that
\* rejected after the storage had written
ErrorBeforeWritePersistsNothing ==
    /\ \A p \in Procs :
          (req[p].pc = "saved" /\ req'[p] # req[p]) =>
              /\ sent'.by = p
              /\ sent'.res.status \in {200, 500}
    /\ sent' # sent =>
          /\ db' = db
          /\ sent'.res.status = 200 => req[sent'.by].pc = "saved"
          /\ sent'.res.status \in {400, 404} => req[sent'.by].pc # "saved"

====
